---- MODULE Spec2Model ----
(***************************************************************************)
(* A model of the Stream Deck action ShowWanIP                             *)
(* (src/src/actions/show-wan-ip.ts).                                       *)
(*                                                                         *)
(* Strings are sequences of one-character strings, so that split(".")     *)
(* and .length are computed as the code computes them.  An image is the    *)
(* SVG document the code builds (its <text> elements, in order), wrapped   *)
(* in the data URL the code returns.  Vertical positions are kept in       *)
(* tenths of a unit so that the code's 1.3, 1.1, 0.35 and 0.5 factors stay *)
(* integers.                                                               *)
(*                                                                         *)
(* Every async handler is cut at its awaits: one action per synchronous    *)
(* segment, which the event loop runs without interruption.  A handler or  *)
(* timer callback that is suspended at an await is a record in the bag     *)
(* tasks.  setImage, showOk and showAlert are taken to resolve; setImage   *)
(* takes effect on the key when it is called.  The action is placed on one *)
(* key; the host alternates willAppear and willDisappear for it, sends     *)
(* keyDown only while it is shown, and may send didReceiveSettings at any  *)
(* time (the handler itself tests currentAction).  Time is not modelled:   *)
(* an interval or a timeout may fire whenever it is registered.            *)
(***************************************************************************)
EXTENDS Integers, Sequences, FiniteSets, Bags, TLC

VARIABLES
    currentIP,        \* this.currentIP
    displayLines,     \* this.displayLines
    currentAction,    \* this.currentAction (NoKey is null)
    refreshInterval,  \* this.refreshInterval (0 is null, else an interval id)
    intervals,        \* the intervals setInterval registered and nobody cleared
    timeouts,         \* the setTimeout callbacks not fired yet, in firing order
    visible,          \* the keys of this action the host currently shows
    image,            \* the image the host holds for each key
    tasks,            \* the bag of suspended handlers and timer callbacks
    last              \* the segment that ran last and the host calls it made

vars == <<currentIP, displayLines, currentAction, refreshInterval, intervals,
          timeouts, visible, image, tasks, last>>

----------------------------------------------------------------------------
(* Bounds of the model *)

MaxPending == 2     \* suspended handlers, live intervals and pending timeouts
MaxLen == 14        \* longest address of the renderer's input set
MaxDots == 4        \* most dots in an address of the renderer's input set

----------------------------------------------------------------------------
(* Program constants *)

KEY_SIZE == 144
StatusFontSize == 24
TwoLineFontSize == 28
FourLineFontSize == 30

Keys == {"k1"}
NoKey == "null"

Dot == "."
Loading == <<"L", "o", "a", "d", "i", "n", "g", ".", ".", ".">>
Error == <<"E", "r", "r", "o", "r">>
Copied == <<"C", "o", "p", "i", "e", "d", "!">>
NoConn == <<"N", "o", " ", "C", "o", "n", "n">>

----------------------------------------------------------------------------
(* The renderer *)

\* y = KEY_SIZE / 2 of a single centred line, in tenths
SingleLineY == (KEY_SIZE * 10) \div 2

\* One <text> element: its content, its font size, and its y in tenths.
TextElement(content, fontSize, y10) ==
    [content |-> content, fontSize |-> fontSize, y10 |-> y10]

\* The data URL of an SVG document of the given <text> elements.
SvgDataUrl(texts) ==
    [scheme |-> "data:image/svg+xml;base64", width |-> KEY_SIZE,
     height |-> KEY_SIZE, texts |-> texts]

\* What a key holds before any setImage reached it.
NoImage == [scheme |-> "none", width |-> 0, height |-> 0, texts |-> <<>>]

\* JavaScript's s.split("."): the maximal dot-free pieces, in order.
RECURSIVE Split(_)
Split(s) ==
    IF \A i \in 1..Len(s) : s[i] # Dot
    THEN <<s>>
    ELSE LET i == CHOOSE j \in 1..Len(s) :
                      s[j] = Dot /\ \A h \in 1..(j - 1) : s[h] # Dot
         IN  <<SubSeq(s, 1, i - 1)>> \o Split(SubSeq(s, i + 1, Len(s)))

createStatusImage(text) ==
    SvgDataUrl(<<TextElement(text, StatusFontSize, SingleLineY)>>)

\* SingleLineFontSize with its first threshold compared by < instead of <=
SingleLineFontSizeStrict(len) ==
    IF len < 7 THEN 26
    ELSE IF len <= 11 THEN 22
    ELSE IF len <= 13 THEN 19
    ELSE 17

SingleLineFontSize(len) ==
    IF len <= 7 THEN 26
    ELSE IF len <= 11 THEN 22
    ELSE IF len <= 13 THEN 19
    ELSE 17

createSingleLineImage(text) ==
    SvgDataUrl(<<TextElement(text, SingleLineFontSize(Len(text)), SingleLineY)>>)

\* startY + lineHeight * (i + 0.5), in tenths; lineHeight10 is 10 * lineHeight
LineY10(fontSize, lineHeight10, lineCount, i) ==
    LET totalHeight10 == lineHeight10 * lineCount
        startY10 == (KEY_SIZE * 10 - totalHeight10) \div 2 + (fontSize * 35) \div 10
    IN  startY10 + (lineHeight10 * (2 * i + 1)) \div 2

\* createTwoLineImage with the second line built from octets 2 and 3
createTwoLineImageShifted(octets) ==
    LET line1 == octets[1] \o <<Dot>> \o octets[2]
        line2 == octets[2] \o <<Dot>> \o octets[3]
        lineHeight10 == TwoLineFontSize * 13
    IN  SvgDataUrl(<<
            TextElement(line1, TwoLineFontSize,
                        LineY10(TwoLineFontSize, lineHeight10, 2, 0)),
            TextElement(line2, TwoLineFontSize,
                        LineY10(TwoLineFontSize, lineHeight10, 2, 1))>>)

createTwoLineImage(octets) ==
    LET line1 == octets[1] \o <<Dot>> \o octets[2]
        line2 == octets[3] \o <<Dot>> \o octets[4]
        lineHeight10 == TwoLineFontSize * 13
    IN  SvgDataUrl(<<
            TextElement(line1, TwoLineFontSize,
                        LineY10(TwoLineFontSize, lineHeight10, 2, 0)),
            TextElement(line2, TwoLineFontSize,
                        LineY10(TwoLineFontSize, lineHeight10, 2, 1))>>)

\* createFourLineImage with its loop stopping one element early
createFourLineImageShort(octets) ==
    LET lineHeight10 == FourLineFontSize * 11
    IN  SvgDataUrl([i \in 1..3 |->
            TextElement(octets[i], FourLineFontSize,
                        LineY10(FourLineFontSize, lineHeight10, 4, i - 1))])

createFourLineImage(octets) ==
    LET lineHeight10 == FourLineFontSize * 11
    IN  SvgDataUrl([i \in 1..4 |->
            TextElement(octets[i], FourLineFontSize,
                        LineY10(FourLineFontSize, lineHeight10, 4, i - 1))])

\* createTextImage whose switch sends every value but 1 and 4 to two lines
createTextImageNoDefault(ip, lines) ==
    LET octets == Split(ip)
    IN  IF Len(octets) # 4 THEN createSingleLineImage(ip)
        ELSE IF lines = 4 THEN createFourLineImage(octets)
        ELSE IF lines = 1 THEN createSingleLineImage(ip)
        ELSE createTwoLineImage(octets)

\* createTextImage whose output also depends on state that is not its input:
\* a single line while a restore callback is pending
createTextImageWhilePending(ip, lines) ==
    LET octets == Split(ip)
    IN  IF Len(octets) # 4 \/ timeouts # <<>> THEN createSingleLineImage(ip)
        ELSE IF lines = 4 THEN createFourLineImage(octets)
        ELSE IF lines = 2 THEN createTwoLineImage(octets)
        ELSE createSingleLineImage(ip)

\* createTextImage(ip) with this.displayLines = lines
createTextImage(ip, lines) ==
    LET octets == Split(ip)
    IN  IF Len(octets) # 4 THEN createSingleLineImage(ip)
        ELSE IF lines = 4 THEN createFourLineImage(octets)
        ELSE IF lines = 2 THEN createTwoLineImage(octets)
        ELSE createSingleLineImage(ip)

----------------------------------------------------------------------------
(* The settings payload, the host calls and the suspended handlers *)

\* WanIPSettings: displayLines is optional
Settings(d) == [present |-> TRUE, displayLines |-> d]
NoSettings == [present |-> FALSE, displayLines |-> 0]

\* ev.payload.settings.displayLines ?? 1
DisplayLinesOf(settings) ==
    IF settings.present THEN settings.displayLines ELSE 1

\* A call the plugin makes to the host, the network or the operating system.
Call(api, key, img, text) == [api |-> api, key |-> key, image |-> img, text |-> text]
SetImage(key, img) == Call("setImage", key, img, <<>>)
ShowOk(key) == Call("showOk", key, NoImage, <<>>)
ShowAlert(key) == Call("showAlert", key, NoImage, <<>>)
Exec(key, text) == Call("exec", key, NoImage, text)
Fetch(key) == Call("fetch", key, NoImage, <<>>)
SetTimeout(key) == Call("setTimeout", key, NoImage, <<>>)
SetInterval(key) == Call("setInterval", key, NoImage, <<>>)
ClearInterval(key) == Call("clearInterval", key, NoImage, <<>>)

\* The segment that ran: its name, the key of its event, the calls it made in
\* order, whether it belongs to a fetch or a copy that failed, and the
\* settings of its event's payload (NoSettings when the event carries none).
Ran(op, key, calls, failed) ==
    [op |-> op, key |-> key, calls |-> calls, failed |-> failed,
     settings |-> NoSettings]
RanWith(op, key, calls, settings) ==
    [op |-> op, key |-> key, calls |-> calls, failed |-> FALSE,
     settings |-> settings]

\* A handler or callback suspended at an await.  shown is not a value of the
\* program: it remembers the image the key held when the key was pressed.
Task(kind, key, pc, failed, shown) ==
    [kind |-> kind, key |-> key, pc |-> pc, failed |-> failed, shown |-> shown]

\* tasks with one suspended handler more, one less, or one moved on
Suspend(task) == tasks (+) SetToBag({task})
Finish(task) == tasks (-) SetToBag({task})
Resume(task, next) == (tasks (-) SetToBag({task})) (+) SetToBag({next})
Suspended == BagToSet(tasks)

\* A pending setTimeout callback of onKeyDown (shown as in Task).
Timeout(key, shown) == [key |-> key, shown |-> shown]

\* what the event loop still holds: suspended handlers, intervals, timeouts
Pending == BagCardinality(tasks) + Cardinality(intervals) + Len(timeouts)

IntervalIds == 1..MaxPending
FreeInterval ==
    CHOOSE i \in IntervalIds :
        /\ \A x \in intervals : x.id # i
        /\ \A j \in 1..(i - 1) : \E x \in intervals : x.id = j

\* The addresses the lookup service answers with in the driver's model.
Bodies == {<<"8", ".", "8", ".", "8", ".", "8">>,
           <<"1", "0", ".", "0", ".", "0", ".", "1">>}
MainSettings == {NoSettings, Settings(2)}

----------------------------------------------------------------------------
(* The state after construction *)

Init ==
    /\ currentIP = Loading
    /\ displayLines = 1
    /\ currentAction = NoKey
    /\ refreshInterval = 0
    /\ intervals = {}
    /\ timeouts = <<>>
    /\ visible = {}
    /\ image = [k \in Keys |-> NoImage]
    /\ tasks = EmptyBag
    /\ last = Ran("init", NoKey, <<>>, FALSE)

----------------------------------------------------------------------------
(* fetchAndDisplayIP, cut at its awaits *)

\* await fetch(...) resumes with an ok response and await response.text()
\* resumes with its body (nothing of the state is read or written between the
\* two awaits): the assignment to currentIP and the call of setImage run in
\* one segment
FetchResolved(t, body) ==
    /\ t \in Suspended
    /\ t.pc = "fetch"
    /\ currentIP' = body
    /\ image' = [image EXCEPT ![t.key] = createTextImage(body, displayLines)]
    /\ tasks' = Resume(t, [t EXCEPT !.pc = "setImage", !.failed = FALSE])
    /\ last' = Ran("fetched", t.key,
                   <<SetImage(t.key, createTextImage(body, displayLines))>>,
                   FALSE)
    /\ UNCHANGED <<displayLines, currentAction, refreshInterval, intervals,
                   timeouts, visible>>

\* fetch rejects, the response is not ok, or text() rejects: the catch block
FetchCatch(t) ==
    /\ t \in Suspended
    /\ t.pc = "fetch"
    /\ currentIP' = Error
    /\ image' = [image EXCEPT ![t.key] = createStatusImage(NoConn)]
    /\ tasks' = Resume(t, [t EXCEPT !.pc = "setImage", !.failed = TRUE])
    /\ last' = Ran("catch", t.key,
                   <<SetImage(t.key, createStatusImage(NoConn))>>,
                   TRUE)
    /\ UNCHANGED <<displayLines, currentAction, refreshInterval, intervals,
                   timeouts, visible>>

----------------------------------------------------------------------------
(* onWillAppear *)

\* up to the first await: the fields are set and the request is sent
OnWillAppear(k, settings) ==
    /\ k \notin visible
    /\ Pending < MaxPending
    /\ visible' = visible \cup {k}
    /\ currentAction' = k
    /\ displayLines' = DisplayLinesOf(settings)
    /\ tasks' = Suspend(Task("appear", k, "fetch", FALSE, NoImage))
    /\ last' = RanWith("appear", k, <<Fetch(k)>>, settings)
    /\ UNCHANGED <<currentIP, refreshInterval, intervals, timeouts, image>>

\* fetchAndDisplayIP has returned: the interval is created and stored
AppearSetInterval(t) ==
    /\ t \in Suspended
    /\ t.kind = "appear"
    /\ t.pc = "setImage"
    /\ intervals' = intervals \cup {[id |-> FreeInterval, key |-> t.key]}
    /\ refreshInterval' = FreeInterval
    /\ tasks' = Finish(t)
    /\ last' = Ran("return", t.key, <<SetInterval(t.key)>>, t.failed)
    /\ UNCHANGED <<currentIP, displayLines, currentAction, timeouts, visible, image>>

----------------------------------------------------------------------------
(* the interval callback *)

\* Tick that gives up once a fetch has failed
TickUnlessError(i) ==
    /\ i \in intervals
    /\ currentIP # Error
    /\ Pending < MaxPending
    /\ tasks' = Suspend(Task("tick", i.key, "fetch", FALSE, NoImage))
    /\ last' = Ran("tick", i.key, <<Fetch(i.key)>>, FALSE)
    /\ UNCHANGED <<currentIP, displayLines, currentAction, refreshInterval,
                   intervals, timeouts, visible, image>>

Tick(i) ==
    /\ i \in intervals
    /\ Pending < MaxPending
    /\ tasks' = Suspend(Task("tick", i.key, "fetch", FALSE, NoImage))
    /\ last' = Ran("tick", i.key, <<Fetch(i.key)>>, FALSE)
    /\ UNCHANGED <<currentIP, displayLines, currentAction, refreshInterval,
                   intervals, timeouts, visible, image>>

\* fetchAndDisplayIP has returned to the interval callback
TickReturn(t) ==
    /\ t \in Suspended
    /\ t.kind = "tick"
    /\ t.pc = "setImage"
    /\ tasks' = Finish(t)
    /\ last' = Ran("return", t.key, <<>>, t.failed)
    /\ UNCHANGED <<currentIP, displayLines, currentAction, refreshInterval,
                   intervals, timeouts, visible, image>>

----------------------------------------------------------------------------
(* onDidReceiveSettings and onWillDisappear *)

\* OnDidReceiveSettings rendering before the new setting is stored
OnDidReceiveSettingsStale(k, settings) ==
    /\ displayLines' = DisplayLinesOf(settings)
    /\ IF currentAction # NoKey
       THEN /\ image' = [image EXCEPT ![currentAction] =
                             createTextImage(currentIP, displayLines)]
            /\ last' = RanWith("settings", k,
                               <<SetImage(currentAction,
                                          createTextImage(currentIP, displayLines))>>,
                               settings)
       ELSE /\ image' = image
            /\ last' = RanWith("settings", k, <<>>, settings)
    /\ UNCHANGED <<currentIP, currentAction, refreshInterval, intervals,
                   timeouts, visible, tasks>>

OnDidReceiveSettings(k, settings) ==
    /\ displayLines' = DisplayLinesOf(settings)
    /\ IF currentAction # NoKey
       THEN /\ image' = [image EXCEPT ![currentAction] =
                             createTextImage(currentIP, DisplayLinesOf(settings))]
            /\ last' = RanWith("settings", k,
                               <<SetImage(currentAction,
                                          createTextImage(currentIP,
                                                          DisplayLinesOf(settings)))>>,
                               settings)
       ELSE /\ image' = image
            /\ last' = RanWith("settings", k, <<>>, settings)
    /\ UNCHANGED <<currentIP, currentAction, refreshInterval, intervals,
                   timeouts, visible, tasks>>

\* OnWillDisappear that also cancels the pending restore callbacks
OnWillDisappearCancelling(k) ==
    /\ k \in visible
    /\ visible' = visible \ {k}
    /\ IF refreshInterval # 0
       THEN /\ intervals' = {x \in intervals : x.id # refreshInterval}
            /\ refreshInterval' = 0
            /\ last' = Ran("disappear", k, <<ClearInterval(k)>>, FALSE)
       ELSE /\ UNCHANGED <<intervals, refreshInterval>>
            /\ last' = Ran("disappear", k, <<>>, FALSE)
    /\ currentAction' = NoKey
    /\ timeouts' = <<>>
    /\ UNCHANGED <<currentIP, displayLines, image, tasks>>

OnWillDisappear(k) ==
    /\ k \in visible
    /\ visible' = visible \ {k}
    /\ IF refreshInterval # 0
       THEN /\ intervals' = {x \in intervals : x.id # refreshInterval}
            /\ refreshInterval' = 0
            /\ last' = Ran("disappear", k, <<ClearInterval(k)>>, FALSE)
       ELSE /\ UNCHANGED <<intervals, refreshInterval>>
            /\ last' = Ran("disappear", k, <<>>, FALSE)
    /\ currentAction' = NoKey
    /\ UNCHANGED <<currentIP, displayLines, timeouts, image, tasks>>

----------------------------------------------------------------------------
(* onKeyDown, copyToClipboard and the restore callback *)

\* OnKeyDown handing the key's image to the clipboard command
OnKeyDownCopiesImage(k) ==
    /\ k \in visible
    /\ Pending < MaxPending
    /\ tasks' = Suspend(Task("press", k, "copy", FALSE, image[k]))
    /\ last' = Ran("keyDown", k, <<Call("exec", k, image[k], <<>>)>>, FALSE)
    /\ UNCHANGED <<currentIP, displayLines, currentAction, refreshInterval,
                   intervals, timeouts, visible, image>>

\* up to the first await: the command is built from currentIP and started
OnKeyDown(k) ==
    /\ k \in visible
    /\ Pending < MaxPending
    /\ tasks' = Suspend(Task("press", k, "copy", FALSE, image[k]))
    /\ last' = Ran("keyDown", k, <<Exec(k, currentIP)>>, FALSE)
    /\ UNCHANGED <<currentIP, displayLines, currentAction, refreshInterval,
                   intervals, timeouts, visible, image>>

\* exec's callback has no error: copyToClipboard resolves, "Copied!" is shown
CopyResolved(t) ==
    /\ t \in Suspended
    /\ t.pc = "copy"
    /\ image' = [image EXCEPT ![t.key] = createStatusImage(Copied)]
    /\ tasks' = Resume(t, [t EXCEPT !.pc = "copied"])
    /\ last' = Ran("copied", t.key,
                   <<SetImage(t.key, createStatusImage(Copied))>>,
                   FALSE)
    /\ UNCHANGED <<currentIP, displayLines, currentAction, refreshInterval,
                   intervals, timeouts, visible>>

\* CopyRejected whose catch block goes on to the OK indicator
CopyRejectedThenOk(t) ==
    /\ t \in Suspended
    /\ t.pc = "copy"
    /\ tasks' = Finish(t)
    /\ last' = Ran("copyFailed", t.key, <<ShowAlert(t.key), ShowOk(t.key)>>, TRUE)
    /\ UNCHANGED <<currentIP, displayLines, currentAction, refreshInterval,
                   intervals, timeouts, visible, image>>

\* exec's callback has an error: copyToClipboard rejects, the catch block
CopyRejected(t) ==
    /\ t \in Suspended
    /\ t.pc = "copy"
    /\ tasks' = Finish(t)
    /\ last' = Ran("copyFailed", t.key, <<ShowAlert(t.key)>>, TRUE)
    /\ UNCHANGED <<currentIP, displayLines, currentAction, refreshInterval,
                   intervals, timeouts, visible, image>>

\* after await setImage("Copied!"): the restore is scheduled, showOk is called
ScheduleRestore(t) ==
    /\ t \in Suspended
    /\ t.pc = "copied"
    /\ timeouts' = Append(timeouts, Timeout(t.key, t.shown))
    /\ tasks' = Finish(t)
    /\ last' = Ran("scheduled", t.key, <<SetTimeout(t.key), ShowOk(t.key)>>, FALSE)
    /\ UNCHANGED <<currentIP, displayLines, currentAction, refreshInterval,
                   intervals, visible, image>>

\* Restore rendering the address in the layout of the default setting
RestoreDefaultLayout ==
    /\ timeouts # <<>>
    /\ timeouts' = Tail(timeouts)
    /\ image' = [image EXCEPT ![Head(timeouts).key] = createTextImage(currentIP, 1)]
    /\ last' = Ran("restore", Head(timeouts).key,
                   <<SetImage(Head(timeouts).key, createTextImage(currentIP, 1))>>,
                   FALSE)
    /\ UNCHANGED <<currentIP, displayLines, currentAction, refreshInterval,
                   intervals, visible, tasks>>

\* the setTimeout callback: timeouts of one delay fire in the order they were set
Restore ==
    /\ timeouts # <<>>
    /\ timeouts' = Tail(timeouts)
    /\ image' = [image EXCEPT ![Head(timeouts).key] =
                     createTextImage(currentIP, displayLines)]
    /\ last' = Ran("restore", Head(timeouts).key,
                   <<SetImage(Head(timeouts).key,
                              createTextImage(currentIP, displayLines))>>,
                   FALSE)
    /\ UNCHANGED <<currentIP, displayLines, currentAction, refreshInterval,
                   intervals, visible, tasks>>

----------------------------------------------------------------------------
(* The plugin under the host's events *)

Next ==
    \/ \E k \in Keys, s \in MainSettings : OnWillAppear(k, s)
    \/ \E t \in Suspended, b \in Bodies : FetchResolved(t, b)
    \/ \E t \in Suspended : FetchCatch(t)
    \/ \E t \in Suspended : AppearSetInterval(t)
    \/ \E i \in intervals : Tick(i)
    \/ \E t \in Suspended : TickReturn(t)
    \/ \E k \in Keys, s \in MainSettings : OnDidReceiveSettings(k, s)
    \/ \E k \in Keys : OnWillDisappear(k)
    \/ \E k \in Keys : OnKeyDown(k)
    \/ \E t \in Suspended : CopyResolved(t)
    \/ \E t \in Suspended : CopyRejected(t)
    \/ \E t \in Suspended : ScheduleRestore(t)
    \/ Restore

Spec == Init /\ [][Next]_vars

----------------------------------------------------------------------------
(* The renderer over many addresses: the key appears, its first fetch      *)
(* answers with any address of RenderInputs, and the user changes the      *)
(* settings at any time                                                    *)

Alphabet == {"1", Dot}
DotCount(s) == Cardinality({i \in 1..Len(s) : s[i] = Dot})
RenderInputs ==
    {s \in UNION {[1..n -> Alphabet] : n \in 0..MaxLen} : DotCount(s) <= MaxDots}
        \cup {Loading, Error,
              <<"8", ".", "8", ".", "8", ".", "8">>,
              <<"2", "0", "3", ".", "0", ".", "1", "1", "3", ".", "7", "7">>}
RenderSettings == {NoSettings} \cup {Settings(d) : d \in 1..4}

RenderNext ==
    \/ \E k \in Keys, s \in RenderSettings : OnWillAppear(k, s)
    \/ \E t \in Suspended :
          t.pc = "fetch" /\ \E b \in RenderInputs : FetchResolved(t, b)
    \/ \E t \in Suspended : AppearSetInterval(t)
    \/ \E k \in Keys, s \in RenderSettings : OnDidReceiveSettings(k, s)

RenderSpec == Init /\ [][RenderNext]_vars

----------------------------------------------------------------------------
(* What the claims speak of *)

\* the segment that ran last called createTextImage(currentIP) and setImage
RenderedNow == last.op \in {"fetched", "settings", "restore"} /\ last.calls # <<>>
RenderedImage == last.calls[1].image
Lines(img) == [i \in 1..Len(img.texts) |-> img.texts[i].content]
Quad(s) == Len(Split(s)) = 4
Ip8888 == <<"8", ".", "8", ".", "8", ".", "8">>
Ip203 == <<"2", "0", "3", ".", "0", ".", "1", "1", "3", ".", "7", "7">>

\* C1: an address that does not split on "." into exactly 4 segments, the
\* placeholder "Loading...", "Error" and the empty string among them, is
\* rendered as one text element holding the whole string, and the result is
\* the same for displayLines 1, 2 and 4.
C1_NonQuadIsSingleLine ==
    (RenderedNow /\ (~Quad(currentIP) \/ currentIP \in {Loading, Error, <<>>}))
        => /\ Lines(RenderedImage) = <<currentIP>>
           /\ \A d \in {1, 2, 4} : createTextImage(currentIP, d) = RenderedImage

\* C2: a 4-segment address rendered with displayLines = 2 gives exactly two
\* text elements, seg0.seg1 and then seg2.seg3, and the two lines joined by a
\* dot are the address.
C2_TwoLines ==
    (RenderedNow /\ Quad(currentIP) /\ displayLines = 2)
        => LET seg == Split(currentIP)
               lines == Lines(RenderedImage)
           IN  /\ Len(lines) = 2
               /\ lines[1] = seg[1] \o <<Dot>> \o seg[2]
               /\ lines[2] = seg[3] \o <<Dot>> \o seg[4]
               /\ lines[1] \o <<Dot>> \o lines[2] = currentIP

C2_Witness ==
    /\ RenderedNow /\ displayLines = 2 /\ currentIP = Ip8888
    /\ Lines(RenderedImage) = <<<<"8", ".", "8">>, <<"8", ".", "8">>>>

\* C3: a 4-segment address rendered with displayLines = 4 gives exactly four
\* text elements, the i-th holding the i-th segment.
C3_FourLines ==
    (RenderedNow /\ Quad(currentIP) /\ displayLines = 4)
        => /\ Len(RenderedImage.texts) = 4
           /\ \A i \in 1..4 : RenderedImage.texts[i].content = Split(currentIP)[i]

C3_Witness ==
    /\ RenderedNow /\ displayLines = 4 /\ currentIP = Ip203
    /\ Lines(RenderedImage) = <<<<"2", "0", "3">>, <<"0">>, <<"1", "1", "3">>,
                                <<"7", "7">>>>

\* C4: a 4-segment address is rendered as a single line holding the address
\* verbatim for every displayLines other than 2 and 4; a payload without
\* displayLines makes onWillAppear and onDidReceiveSettings store 1.
C4_OtherModesSingleLine ==
    /\ (RenderedNow /\ Quad(currentIP) /\ displayLines \notin {2, 4})
           => Lines(RenderedImage) = <<currentIP>>
    /\ (last.op \in {"appear", "settings"} /\ ~last.settings.present)
           => displayLines = 1

C4_Witness ==
    /\ RenderedNow /\ Quad(currentIP) /\ displayLines = 3
    /\ last.op = "settings" /\ last.settings = Settings(3)
    /\ Lines(RenderedImage) = <<currentIP>>

\* C5: on the single-line path the font size is 26 up to length 7, 22 from 8
\* to 11, 19 for 12 and 13, and 17 from 14 on, which never grows with the
\* length; "Error" is rendered at 26 whatever displayLines is.
ClaimedFontSize(len) ==
    CASE len <= 7 -> 26
      [] len >= 8 /\ len <= 11 -> 22
      [] len >= 12 /\ len <= 13 -> 19
      [] len >= 14 -> 17

C5_FontSizeSteps ==
    /\ (RenderedNow /\ (~Quad(currentIP) \/ displayLines \notin {2, 4}))
           => /\ Len(RenderedImage.texts) = 1
              /\ RenderedImage.texts[1].fontSize = ClaimedFontSize(Len(currentIP))
    /\ (RenderedNow /\ Len(currentIP) < MaxLen /\ Len(RenderedImage.texts) = 1)
           => \A longer \in (Len(currentIP) + 1)..MaxLen :
                  SingleLineFontSize(longer) <= RenderedImage.texts[1].fontSize
    /\ (RenderedNow /\ currentIP = Error)
           => RenderedImage = SvgDataUrl(<<TextElement(Error, 26, SingleLineY)>>)

C5_Witness ==
    /\ RenderedNow /\ Len(currentIP) = 14 /\ ~Quad(currentIP) /\ displayLines = 2
    /\ RenderedImage.texts[1].fontSize = 17

\* C6: a failed fetch is caught inside fetchAndDisplayIP: the catch block
\* stores "Error" and sets the "No Conn" status image, and when the call
\* returns currentIP is "Error".
C6_FailedFetchLeavesError ==
    /\ last.op = "catch"
           => /\ currentIP = Error
              /\ last.calls = <<SetImage(last.key, createStatusImage(NoConn))>>
    /\ (last.op = "return" /\ last.failed) => currentIP = Error

\* C7: the executions started by the refresh timer, by key presses and by the
\* other events never overlap: at most one of them is between its start and
\* its completion, and none reads currentIP or sets the key image while
\* another is.
C7_HandlersNeverOverlap ==
    /\ BagCardinality(tasks) <= 1
    /\ last.op \in {"settings", "restore"} => tasks = EmptyBag

\* C8: once onWillDisappear has run, and until the next onWillAppear, no
\* refresh interval is scheduled and no timer-triggered fetch starts.
C8_DisappearStopsRefresh ==
    /\ visible = {} => intervals = {}
    /\ last.op = "tick" => last.key \in visible

\* C9 as the specification states it: after a successful copy the key shows
\* "Copied!", exactly one restore is scheduled, and when it fires the key
\* shows again the address display it showed before the press.
AddressImages ==
    {createTextImage(ip, d) : ip \in Bodies \cup {Loading, Error}, d \in {1, 2, 4}}

C10_CopyFailureOnlyAlerts ==
    [][/\ last'.op = "keyDown"
            => /\ last'.calls = <<Exec(last'.key, currentIP)>>
               /\ UNCHANGED <<currentIP, displayLines, image, timeouts>>
       /\ last'.op = "copyFailed"
            => /\ last'.calls = <<ShowAlert(last'.key)>>
               /\ UNCHANGED <<currentIP, displayLines, image, timeouts>>
               /\ \E t \in Suspended :
                      /\ t.kind = "press" /\ t.pc = "copy"
                      /\ tasks' = tasks (-) SetToBag({t})]_vars

C10_Witness ==
    /\ last.op = "copyFailed" /\ last.calls = <<ShowAlert(last.key)>>
    /\ timeouts = <<>> /\ image[last.key] # createStatusImage(Copied)
    /\ image[last.key] # NoImage

\* C11: after a failed fetch the refresh timer stays active while the key is
\* shown, and every tick issues a new fetch attempt however many fetches
\* failed before (with "Error" stored a tick is still possible); a fetch that
\* then succeeds stores the fetched address in place of "Error" and shows its
\* address image.
C11_RetryAfterFailure ==
    /\ [](/\ (visible # {} /\ \A t \in Suspended : t.kind # "appear")
                 => intervals # {}
          /\ (intervals # {} /\ Pending < MaxPending)
                 => ENABLED (\E i \in intervals : Tick(i)))
    /\ [][/\ last'.op = "catch"
               => UNCHANGED <<intervals, refreshInterval>>
          /\ last'.op = "tick"
               => /\ last'.calls = <<Fetch(last'.key)>>
                  /\ tasks' = tasks (+) SetToBag({Task("tick", last'.key, "fetch",
                                                       FALSE, NoImage)})
                  /\ UNCHANGED <<intervals, refreshInterval>>
          /\ last'.op = "fetched"
               => /\ currentIP' \in Bodies
                  /\ image'[last'.key] = createTextImage(currentIP', displayLines')
                  /\ last'.calls = <<SetImage(last'.key, image'[last'.key])>>]_vars

C11_Witness ==
    /\ last.op = "tick" /\ last.key \in visible
    /\ currentIP = Error /\ image[last.key] = createStatusImage(NoConn)
    /\ \E t \in Suspended : t.kind = "tick" /\ t.pc = "fetch"

\* C12: a key press hands the clipboard command exactly currentIP as it is at
\* the press (the address string, no image), and currentIP is always
\* "Loading...", a fetched body or "Error": it starts as "Loading...", only a
\* completing fetch writes it, a successful one its body and a failed one
\* "Error", so it always shows the outcome of the fetch that completed last.
C12_ClipboardGetsCurrentIP ==
    /\ [](/\ last.op = "keyDown" => last.calls = <<Exec(last.key, currentIP)>>
          /\ currentIP \in {Loading, Error} \cup Bodies
          /\ last.op = "init" => currentIP = Loading)
    /\ [][/\ last'.op = "fetched" => currentIP' \in Bodies
          /\ last'.op = "catch" => currentIP' = Error
          /\ last'.op \notin {"fetched", "catch"} => currentIP' = currentIP]_vars

C12_Witness ==
    /\ last.op = "keyDown"
    /\ currentIP \in Bodies
    /\ last.calls = <<Exec(last.key, currentIP)>>
    /\ image[last.key] # createTextImage(currentIP, displayLines)

\* C13: onDidReceiveSettings stores the new setting in displayLines (1 when
\* the setting is absent) and leaves currentIP, refreshInterval and the
\* scheduled intervals as they were; with currentAction set its one call is
\* setImage of createTextImage(currentIP) under the new displayLines on that
\* action, and with currentAction null it calls nothing and no image changes.
C13_SettingsRerender ==
    /\ [](last.op = "settings"
            => /\ displayLines = DisplayLinesOf(last.settings)
               /\ IF currentAction # NoKey
                  THEN /\ last.calls = <<SetImage(currentAction,
                                                  createTextImage(currentIP,
                                                                  displayLines))>>
                       /\ image[currentAction] =
                              createTextImage(currentIP, displayLines)
                  ELSE last.calls = <<>>)
    /\ [][last'.op = "settings"
            => /\ UNCHANGED <<currentIP, refreshInterval, intervals, currentAction>>
               /\ currentAction = NoKey => image' = image]_vars

C13_Witness ==
    /\ last.op = "settings"
    /\ currentAction # NoKey
    /\ currentIP \in Bodies
    /\ displayLines = 2
    /\ image[currentAction] = createTwoLineImage(Split(currentIP))

C15_RestoreSurvivesDisappear ==
    /\ [](last.op = "restore"
            => last.calls = <<SetImage(last.key,
                                       createTextImage(currentIP, displayLines))>>)
    /\ [][/\ last'.op = "disappear" => UNCHANGED <<timeouts, tasks>>
          /\ last'.op = "restore"
               => /\ timeouts # <<>>
                  /\ last'.key = Head(timeouts).key
                  /\ timeouts' = Tail(timeouts)
          /\ last'.op = "scheduled"
               => \E t \in Suspended :
                     /\ t.kind = "press" /\ t.key = last'.key
                     /\ timeouts' = Append(timeouts, Timeout(t.key, t.shown))
          /\ last'.op \notin {"restore", "scheduled"} => timeouts' = timeouts]_vars

C15_Witness ==
    /\ last.op = "restore"
    /\ last.key \notin visible /\ currentAction = NoKey
    /\ image[last.key] = createTextImage(currentIP, displayLines)

\* C16: at most one refresh interval is scheduled at any time and
\* refreshInterval refers to it: exactly one interval is scheduled, with the id
\* refreshInterval holds, when refreshInterval is not null, and none when it
\* is null.
C16_OneLiveInterval ==
    IF refreshInterval # 0
    THEN \E i \in intervals : i.id = refreshInterval /\ intervals = {i}
    ELSE intervals = {}

\* C17: whenever the key is shown and nothing is suspended or pending (no
\* handler at an await, no fetch in flight, no restore callback scheduled), the
\* key's image agrees with the stored state: the "No Conn" status image when
\* currentIP is "Error", and createTextImage(currentIP) under displayLines
\* otherwise.
C17_QuiescentImageAgrees ==
    \A k \in visible :
        (tasks = EmptyBag /\ timeouts = <<>>)
            => image[k] = IF currentIP = Error
                          THEN createStatusImage(NoConn)
                          ELSE createTextImage(currentIP, displayLines)

\* C18: a fetch that completes while the key is not shown (after
\* onWillDisappear and before the next onWillAppear) has no effect: the
\* segment that handles its answer or its failure does not write currentIP,
\* calls nothing and changes no image.
C18_NoFetchEffectAfterDisappear ==
    [][(visible = {} /\ last'.op \in {"fetched", "catch"})
          => /\ currentIP' = currentIP
             /\ image' = image
             /\ last'.calls = <<>>]_vars

====
